---- MODULE Spec2Model ----
(***************************************************************************)
(* Model of scripts/L1parsing.py: the RepeatMasker .out reader             *)
(* (read_rmsk_out), the LINE-1 classifier (is_l1, infer_family) and the    *)
(* report writer (write_outputs).                                          *)
(*                                                                         *)
(* A Python str is a sequence of one-character strings; Python's None is   *)
(* the value None below.  Positions named "position k" are Python's        *)
(* 0-based list indices: parts[k] is At(parts, k).                         *)
(***************************************************************************)
EXTENDS Integers, Sequences, FiniteSets, TLC

VARIABLES
    file,            \* the lines of the input file
    top_families,    \* args.top_families
    pc,              \* where the run is
    i,               \* the enumerate() index of the pass in progress
    skip,            \* read_rmsk_out's skip
    rows,            \* read_rmsk_out's rows
    outputs,         \* the artifacts on disk
    stdout,          \* what was printed
    exitStatus,      \* the process exit status, -1 while running
    repClassFamily,  \* classifier harness: the argument repClassFamily
    repName,         \* classifier harness: the argument repName
    isL1Result,      \* classifier harness: what is_l1 returned
    famResult        \* classifier harness: what infer_family returned

vars == <<file, top_families, pc, i, skip, rows, outputs, stdout, exitStatus,
          repClassFamily, repName, isL1Result, famResult>>

----------------------------------------------------------------------------
(* Strings *)

Chars(s) == [k \in 1..Len(s) |-> SubSeq(s, k, k)]

None == <<"<None>">>

\* x or ""
OrEmpty(x) == IF x = None THEN <<>> ELSE x

\* bool(x) of a str or None
Truthy(x) == x # None /\ x # <<>>

\* f"{x}"
Format(x) == IF x = None THEN Chars("None") ELSE x

LowerLetters == Chars("abcdefghijklmnopqrstuvwxyz")
UpperLetters == Chars("ABCDEFGHIJKLMNOPQRSTUVWXYZ")
Digits == Chars("0123456789")

InSeq(c, s) == \E k \in 1..Len(s) : s[k] = c
IndexIn(c, s) == CHOOSE k \in 1..Len(s) : s[k] = c
Range(s) == { s[k] : k \in 1..Len(s) }

LowerSet == Range(LowerLetters)
UpperSet == Range(UpperLetters)
DigitSet == Range(Digits)
UpperOf == [c \in LowerSet |-> UpperLetters[IndexIn(c, LowerLetters)]]
DigitValue == [c \in DigitSet |-> IndexIn(c, Digits) - 1]

IsLower(c) == c \in LowerSet
IsUpper(c) == c \in UpperSet
IsDigit(c) == c \in DigitSet
IsLetter(c) == IsLower(c) \/ IsUpper(c)
\* \w and \s of the re module, on the characters of the model
IsWord(c) == IsLetter(c) \/ IsDigit(c) \/ c = "_"
IsSpace(c) == c \in {" ", "\t", "\n", "\r"}

ToUpper(c) == IF IsLower(c) THEN UpperOf[c] ELSE c

\* str.upper()
Upper(s) == [k \in 1..Len(s) |-> ToUpper(s[k])]

\* str.startswith(p)
StartsWith(s, p) == Len(s) >= Len(p) /\ SubSeq(s, 1, Len(p)) = p

\* c in s
Contains(s, c) == InSeq(c, s)

----------------------------------------------------------------------------
(* Regular expressions: a pattern is a sequence of alternatives, an         *)
(* alternative a sequence of items [cls, lo, hi], matched as re does: the   *)
(* item of class "$" is the end anchor (the end, or before a last "\n");   *)
(* leftmost start, the first alternative, each quantifier greedy with       *)
(* backtracking.  Every pattern of the program is compiled with IGNORECASE. *)

Unbounded == 1000000
NoMatch == [start |-> 0, end |-> 0]

Item(cls, lo, hi) == [cls |-> cls, lo |-> lo, hi |-> hi]
Lit(c) == Item(c, 1, 1)
LitSeq(s) == [k \in 1..Len(s) |-> Lit(s[k])]

\* whether character c is in the class, under re.IGNORECASE
InClass(c, cls) ==
    CASE cls = "\\W"  -> ~IsWord(c)
      [] cls = "\\w"  -> IsWord(c)
      [] cls = "\\d"  -> IsDigit(c)
      [] cls = "\\s"  -> IsSpace(c)
      [] cls = "[A-Z]" -> IsLetter(c)
      [] OTHER -> ToUpper(c) = ToUpper(cls)

\* how many characters from pos on are in the class, at most hi
RECURSIVE RunLen(_, _, _, _)
RunLen(s, pos, cls, hi) ==
    IF hi = 0 \/ pos > Len(s) \/ ~InClass(s[pos], cls) THEN 0
    ELSE 1 + RunLen(s, pos + 1, cls, hi - 1)

\* the position after the first match of items k.. of alt at pos, or 0
RECURSIVE MatchFrom(_, _, _, _)
RECURSIVE TryCount(_, _, _, _, _)
MatchFrom(alt, k, s, pos) ==
    IF k > Len(alt) THEN pos
    ELSE IF alt[k].cls = "$"
    THEN IF pos = Len(s) + 1 \/ (pos = Len(s) /\ s[pos] = "\n")
         THEN MatchFrom(alt, k + 1, s, pos) ELSE 0
    ELSE TryCount(alt, k, s, pos, RunLen(s, pos, alt[k].cls, alt[k].hi))

TryCount(alt, k, s, pos, n) ==
    IF n < alt[k].lo THEN 0
    ELSE LET r == MatchFrom(alt, k + 1, s, pos + n)
         IN IF r # 0 THEN r ELSE TryCount(alt, k, s, pos, n - 1)

RECURSIVE MatchAlts(_, _, _, _)
MatchAlts(pat, a, s, pos) ==
    IF a > Len(pat) THEN 0
    ELSE LET r == MatchFrom(pat[a], 1, s, pos)
         IN IF r # 0 THEN r ELSE MatchAlts(pat, a + 1, s, pos)

\* pattern.search(s): [start, end) of the match, 1-based, or NoMatch
RECURSIVE SearchFrom(_, _, _)
SearchFrom(pat, s, pos) ==
    IF pos > Len(s) + 1 THEN NoMatch
    ELSE LET r == MatchAlts(pat, 1, s, pos)
         IN IF r # 0 THEN [start |-> pos, end |-> r]
            ELSE SearchFrom(pat, s, pos + 1)

Search(pat, s) == SearchFrom(pat, s, 1)

\* m.group(0)
Group0(s, m) == SubSeq(s, m.start, m.end - 1)

\* r"LINE\W*/*\W*L1"
L1_CLASS_PAT ==
    << LitSeq(Chars("LINE"))
       \o << Item("\\W", 0, Unbounded), Item("/", 0, Unbounded), Item("\\W", 0, Unbounded) >>
       \o LitSeq(Chars("L1")) >>

\* r"(L1HS|L1PA\d+|L1PB\d+|L1[A-Z]{1,2}\d*|L1P\w+)"
L1_FAM_PAT ==
    << LitSeq(Chars("L1HS")),
       LitSeq(Chars("L1PA")) \o << Item("\\d", 1, Unbounded) >>,
       LitSeq(Chars("L1PB")) \o << Item("\\d", 1, Unbounded) >>,
       LitSeq(Chars("L1")) \o << Item("[A-Z]", 1, 2), Item("\\d", 0, Unbounded) >>,
       LitSeq(Chars("L1P")) \o << Item("\\w", 1, Unbounded) >> >>

----------------------------------------------------------------------------
(* The classifier *)

\* mutant: the repeat name is compared without upper()
is_l1_mut(cf, nm) ==
    LET s == Format(cf) \o <<" ">> \o (IF Truthy(nm) THEN nm ELSE <<>>)
    IN IF Search(L1_CLASS_PAT, s) # NoMatch THEN TRUE
       ELSE IF Truthy(nm) /\ StartsWith(nm, Chars("L1")) THEN TRUE
       ELSE FALSE

is_l1(cf, nm) ==
    LET s == Format(cf) \o <<" ">> \o (IF Truthy(nm) THEN nm ELSE <<>>)
    IN IF Search(L1_CLASS_PAT, s) # NoMatch THEN TRUE
       ELSE IF Truthy(nm) /\ StartsWith(Upper(nm), Chars("L1")) THEN TRUE
       ELSE FALSE

\* mutant: s.rsplit(sep, 1)[1], the split at the last separator
RECURSIVE AfterFirst_mut(_, _)
AfterFirst_mut(s, sep) ==
    IF s = <<>> \/ s[Len(s)] = sep THEN <<>>
    ELSE AfterFirst_mut(SubSeq(s, 1, Len(s) - 1), sep) \o <<s[Len(s)]>>

\* s.split(sep, 1)[1], for s containing sep
RECURSIVE AfterFirst(_, _)
AfterFirst(s, sep) ==
    IF s = <<>> THEN <<>>
    ELSE IF Head(s) = sep THEN Tail(s)
    ELSE AfterFirst(Tail(s), sep)

\* mutant: no fallback
OrUnknown_mut(fam) == fam

\* fam or "Unknown"
OrUnknown(fam) == IF fam # <<>> THEN fam ELSE Chars("Unknown")

infer_family(nm, cf) ==
    LET fam0 == IF Contains(OrEmpty(cf), "/") THEN AfterFirst(cf, "/") ELSE <<>>
        m    == Search(L1_FAM_PAT, nm)
        fam1 == IF fam0 = <<>> /\ Truthy(nm) /\ m # NoMatch
                THEN Group0(nm, m) ELSE fam0
    IN OrUnknown(fam1)

----------------------------------------------------------------------------
(* Library conversions *)

\* str.strip()
RECURSIVE LStrip(_)
LStrip(s) == IF s # <<>> /\ IsSpace(Head(s)) THEN LStrip(Tail(s)) ELSE s

RECURSIVE RStrip(_)
RStrip(s) ==
    IF s # <<>> /\ IsSpace(s[Len(s)]) THEN RStrip(SubSeq(s, 1, Len(s) - 1)) ELSE s

Strip(s) == RStrip(LStrip(s))

\* the first position from pos on that holds no whitespace
RECURSIVE SkipSpaces(_, _)
SkipSpaces(s, pos) ==
    IF pos <= Len(s) /\ IsSpace(s[pos]) THEN SkipSpaces(s, pos + 1) ELSE pos

\* re.split(r"\s+", s)
RECURSIVE SplitAcc(_, _, _)
SplitAcc(s, pos, cur) ==
    IF pos > Len(s) THEN <<cur>>
    ELSE IF IsSpace(s[pos]) THEN <<cur>> \o SplitAcc(s, SkipSpaces(s, pos), <<>>)
    ELSE SplitAcc(s, pos + 1, Append(cur, s[pos]))

SplitWS(s) == SplitAcc(s, 1, <<>>)

\* s.replace(c, "")
RECURSIVE Remove(_, _)
Remove(s, c) ==
    IF s = <<>> THEN <<>>
    ELSE IF Head(s) = c THEN Remove(Tail(s), c)
    ELSE <<Head(s)>> \o Remove(Tail(s), c)

\* the position after the digitpart (digit ("_"? digit)*) that starts at pos;
\* pos itself when none starts there
RECURSIVE DigitPartEnd(_, _)
DigitPartEnd(s, pos) ==
    IF pos > Len(s) \/ ~IsDigit(s[pos]) THEN pos
    ELSE IF pos + 1 <= Len(s) /\ IsDigit(s[pos + 1]) THEN DigitPartEnd(s, pos + 1)
    ELSE IF pos + 2 <= Len(s) /\ s[pos + 1] = "_" /\ IsDigit(s[pos + 2])
         THEN DigitPartEnd(s, pos + 2)
    ELSE pos + 1

DigitsOf(s, from, to) == Remove(SubSeq(s, from, to - 1), "_")

\* the number a digit string denotes, saturating at Unbounded
RECURSIVE NumAcc(_, _)
NumAcc(ds, acc) ==
    IF ds = <<>> THEN acc
    ELSE IF acc >= Unbounded THEN Unbounded
    ELSE NumAcc(Tail(ds), acc * 10 + DigitValue[Head(ds)])

Num(ds) == NumAcc(ds, 0)

HasSign(s) == s # <<>> /\ Head(s) \in {"+", "-"}

\* int(tok): [ok, val]; ok = FALSE is ValueError
ParseInt(tok) ==
    LET s    == Strip(tok)
        body == IF HasSign(s) THEN Tail(s) ELSE s
        e    == DigitPartEnd(body, 1)
    IN IF body # <<>> /\ e = Len(body) + 1
       THEN [ok |-> TRUE,
             val |-> IF Head(s) = "-" THEN 0 - Num(DigitsOf(body, 1, e))
                     ELSE Num(DigitsOf(body, 1, e))]
       ELSE [ok |-> FALSE, val |-> 0]

RECURSIVE StripZeros(_)
StripZeros(ds) == IF ds # <<>> /\ Head(ds) = "0" THEN StripZeros(Tail(ds)) ELSE ds

\* the leading digits of 2^1024 - 2^970, from which a decimal rounds to infinity
FloatOverflowDigits == Chars("179769313486231580793")
FloatOverflowOrder == 309

\* ds >= FloatOverflowDigits as decimal fractions 0.d1d2..., on the digits the
\* threshold gives
RECURSIVE DigitsGeq(_, _)
DigitsGeq(ds, th) ==
    IF th = <<>> THEN TRUE
    ELSE LET d == IF ds = <<>> THEN "0" ELSE Head(ds)
             r == IF ds = <<>> THEN <<>> ELSE Tail(ds)
         IN IF DigitValue[d] > DigitValue[Head(th)] THEN TRUE
            ELSE IF DigitValue[d] < DigitValue[Head(th)] THEN FALSE
            ELSE DigitsGeq(r, Tail(th))

ValueErrorFloat == [kind |-> "ValueError", neg |-> FALSE, digits |-> <<>>, exp10 |-> 0]

\* the float of the integer ds times 10^e10: inf from the largest double on
Decimal(neg, ds, e10) ==
    LET sig   == StripZeros(ds)
        order == Len(sig) + e10
    IN IF sig # <<>> /\ (order > FloatOverflowOrder
                         \/ (order = FloatOverflowOrder /\ DigitsGeq(sig, FloatOverflowDigits)))
       THEN [kind |-> "inf", neg |-> neg, digits |-> <<>>, exp10 |-> 0]
       ELSE [kind |-> "finite", neg |-> neg, digits |-> ds, exp10 |-> e10]

\* float(tok): [kind, neg, digits, exp10], kind one of finite, inf, nan,
\* ValueError; a finite value is the integer digits times 10^exp10
ParseFloat(tok) ==
    LET s     == Strip(tok)
        neg   == s # <<>> /\ Head(s) = "-"
        body  == IF HasSign(s) THEN Tail(s) ELSE s
        up    == Upper(body)
        iEnd  == DigitPartEnd(body, 1)
        dot   == iEnd <= Len(body) /\ body[iEnd] = "."
        fFrom == IF dot THEN iEnd + 1 ELSE iEnd
        fEnd  == IF dot THEN DigitPartEnd(body, fFrom) ELSE iEnd
        hasE  == fEnd <= Len(body) /\ body[fEnd] \in {"e", "E"}
        eSign == hasE /\ fEnd + 1 <= Len(body) /\ body[fEnd + 1] \in {"+", "-"}
        eFrom == IF eSign THEN fEnd + 2 ELSE fEnd + 1
        eEnd  == IF hasE THEN DigitPartEnd(body, eFrom) ELSE fEnd
        eVal  == IF hasE THEN Num(DigitsOf(body, eFrom, eEnd)) ELSE 0
        e10   == IF eSign /\ body[fEnd + 1] = "-" THEN 0 - eVal ELSE eVal
        ds    == DigitsOf(body, 1, iEnd) \o DigitsOf(body, fFrom, fEnd)
    IN IF up \in {Chars("INF"), Chars("INFINITY")}
       THEN [kind |-> "inf", neg |-> neg, digits |-> <<>>, exp10 |-> 0]
       ELSE IF up = Chars("NAN")
       THEN [kind |-> "nan", neg |-> neg, digits |-> <<>>, exp10 |-> 0]
       ELSE IF ds # <<>> /\ (hasE => eEnd > eFrom) /\ eEnd = Len(body) + 1
       THEN Decimal(neg, ds, e10 - (fEnd - fFrom))
       ELSE ValueErrorFloat

\* math.isfinite(x)
IsFinite(x) == x.kind = "finite"

\* r"^\s*-+\s*$"
DIVIDER_PAT ==
    << Item("\\s", 0, Unbounded), Item("-", 1, Unbounded), Item("\\s", 0, Unbounded),
       Item("$", 0, 0) >>

\* mutant: the dashes are optional, r"^\s*-*\s*$"
IsDivider_mut(line) ==
    MatchFrom(<< Item("\\s", 0, Unbounded), Item("-", 0, Unbounded),
                 Item("\\s", 0, Unbounded), Item("$", 0, 0) >>, 1, line, 1) # 0

\* re.match(r"^\s*-+\s*$", line)
IsDivider(line) == MatchFrom(DIVIDER_PAT, 1, line, 1) # 0

----------------------------------------------------------------------------
(* read_rmsk_out: one data line *)

\* mutant: one column fewer is enough
MinCols_mut == 14 - 1

MinCols == 14

\* parts[k]
At(parts, k) == parts[k + 1]

\* parts[a:b]
Slice(parts, a, b) == SubSeq(parts, a + 1, IF b < Len(parts) THEN b ELSE Len(parts))

NoneInt == <<>>
SomeInt(n) == <<n>>

\* mutant: each coordinate falls back to None on its own
Coords_mut(parts) ==
    LET b == ParseInt(Remove(At(parts, 5), ","))
        e == ParseInt(Remove(At(parts, 6), ","))
    IN [start |-> IF b.ok THEN SomeInt(b.val) ELSE NoneInt,
        end   |-> IF e.ok THEN SomeInt(e.val) ELSE NoneInt]

\* start, end of a row
Coords(parts) ==
    LET q_begin == Remove(At(parts, 5), ",")
        q_end   == Remove(At(parts, 6), ",")
        b       == ParseInt(q_begin)
        e       == ParseInt(q_end)
    IN IF b.ok /\ e.ok THEN [start |-> SomeInt(b.val), end |-> SomeInt(e.val)]
       ELSE [start |-> NoneInt, end |-> NoneInt]

\* mutant: only the strand column is looked at
Strand_mut(parts) ==
    IF At(parts, 8) = Chars("C") THEN Chars("-") ELSE Chars("+")

\* strand of a row
Strand(parts) ==
    IF InSeq(Chars("C"), Slice(parts, 8, 10)) THEN Chars("-") ELSE Chars("+")

Row(parts, perc_div) ==
    LET c == Coords(parts)
    IN [seqname        |-> At(parts, 4),
        start          |-> c.start,
        end            |-> c.end,
        strand         |-> Strand(parts),
        repName        |-> At(parts, 9),
        repClassFamily |-> At(parts, 10),
        repFamily      |-> infer_family(At(parts, 9), At(parts, 10)),
        perc_div       |-> perc_div]

\* the body of the second loop for a line at or after skip: what it appends,
\* or the exception that leaves it
ProcessLine(line) ==
    LET parts == SplitWS(Strip(line))
    IN IF Strip(line) = <<>> THEN [raised |-> FALSE, add |-> <<>>]
       ELSE IF Len(parts) < MinCols THEN [raised |-> FALSE, add |-> <<>>]
       ELSE IF Len(parts) < 2 THEN [raised |-> TRUE, add |-> <<>>]
       ELSE IF ParseFloat(At(parts, 1)).kind = "ValueError"
            THEN [raised |-> FALSE, add |-> <<>>]
       ELSE IF Len(parts) < 11 THEN [raised |-> TRUE, add |-> <<>>]
       ELSE IF ~is_l1(At(parts, 10), At(parts, 9)) THEN [raised |-> FALSE, add |-> <<>>]
       ELSE [raised |-> FALSE, add |-> <<Row(parts, ParseFloat(At(parts, 1)))>>]

\* mutant: the row is inserted at the front
AppendRows_mut(rs, add) == add \o rs

\* rows.append(row) for each row of add
AppendRows(rs, add) == rs \o add

----------------------------------------------------------------------------
(* The files of the model *)

MaxLines == 3

\* columns: 0 score, 1 % div, 2 % del, 3 % ins, 4 query, 5 begin, 6 end, 7 (left),
\* 8 strand, 9 repeat name, 10 class/family, 11.. position in repeat, ID
DividerLine  == " ---\n"
BlankLine    == " \t\n"
DashesLine   == "- -\n"
GoodLine     == "1306 12.5 6.2 0.0 chr1 1,234 2,000 C + L1HS LINE/L1 C 300 (0) 7\n"
ComplLine    == "  1306 \t3 \t6.2 0.0 chr1 10 20 (5) C l1pa3 LINE 1 300 (0)\n"
ShortLine    == "1306 12.5 6.2 0.0 chr1 1,234 2,000 (5) + L1HS LINE/L1 1 300\n"
BadDivLine   == "1306 1.2.3 6.2 0.0 chr1 1 2 (5) + L1HS LINE/L1 1 300 (0) 7\n"
InfDivLine   == "1306 inf 6.2 0.0 chr1 1 2 (5) + L1-like SINE/Alu 1 300 (0) 7\n"
AluLine      == "1306 7.5 6.2 0.0 chr1 1 2 (5) C AluY SINE/Alu 1 300 (0) 7\n"
EndBadLine   == "1306 0.5 6.2 0.0 chr1 5 6x (5) + L1 LINE/ 1 300 (0) 7\n"
BeginBadLine == "1306 1e1 6.2 0.0 chr1 , 7 (5) + C LINE/L1 1 300 (0) 7\n"
HugeDivLine  == "1306 1e999 6.2 0.0 chr1 1 2 (5) + L1HS LINE/L1 1 300 (0) 7\n"

Lines == { DividerLine, BlankLine, DashesLine, GoodLine, ComplLine, ShortLine,
           BadDivLine, InfDivLine, AluLine, EndBadLine, BeginBadLine, HugeDivLine }

RECURSIVE Files(_)
Files(n) ==
    IF n = 0 THEN { <<>> }
    ELSE LET shorter == Files(n - 1)
         IN shorter \cup { Append(f, l) : f \in { g \in shorter : Len(g) = n - 1 }, l \in Lines }

TopFamilies == {0, 1}

\* the two loops' work on each line of the model, computed once
DividerAt == [l \in Lines |-> IsDivider(Chars(l))]
Processed == [l \in Lines |-> ProcessLine(Chars(l))]

----------------------------------------------------------------------------
(* The run: main, read_rmsk_out, write_outputs *)

NoRowsMessage == "No LINE-1 rows found with usable % divergence."

Idle == [state |-> "idle", value |-> <<>>]

Init ==
    /\ file \in Files(MaxLines)
    /\ top_families \in TopFamilies
    /\ pc = "scan"
    /\ i = 0
    /\ skip = 0
    /\ rows = <<>>
    /\ outputs = {}
    /\ stdout = <<>>
    /\ exitStatus = -1
    /\ repClassFamily = None
    /\ repName = None
    /\ isL1Result = Idle
    /\ famResult = Idle

\* whether a harness result holds a returned value
Returned(r) == r.state = "returned"

harness == <<repClassFamily, repName, isL1Result, famResult>>
inputs == <<file, top_families>>

\* the first loop, one line: the dashed line sets skip and ends the loop
ScanLine ==
    /\ pc = "scan"
    /\ i < Len(file)
    /\ IF DividerAt[file[i + 1]]
       THEN skip' = i + 1 /\ pc' = "read" /\ i' = 0
       ELSE skip' = skip /\ pc' = "scan" /\ i' = i + 1
    /\ UNCHANGED <<inputs, rows, outputs, stdout, exitStatus, harness>>

\* the first loop ends with the file
ScanEnd ==
    /\ pc = "scan"
    /\ i = Len(file)
    /\ pc' = "read"
    /\ i' = 0
    /\ UNCHANGED <<inputs, skip, rows, outputs, stdout, exitStatus, harness>>

\* the second loop, one line
ReadLine ==
    /\ pc = "read"
    /\ i < Len(file)
    /\ i' = i + 1
    /\ IF i < skip
       THEN UNCHANGED <<rows, pc, exitStatus>>
       ELSE LET r == Processed[file[i + 1]]
            IN IF r.raised
               THEN pc' = "crashed" /\ exitStatus' = 1 /\ rows' = rows
               ELSE rows' = AppendRows(rows, r.add) /\ UNCHANGED <<pc, exitStatus>>
    /\ UNCHANGED <<inputs, skip, outputs, stdout, harness>>

\* read_rmsk_out returns, main calls write_outputs
ReadEnd ==
    /\ pc = "read"
    /\ i = Len(file)
    /\ pc' = "write"
    /\ UNCHANGED <<inputs, i, skip, rows, outputs, stdout, exitStatus, harness>>

\* mutant: the guard never fires
NoRows_mut(rs) == FALSE

\* not rows
NoRows(rs) == rs = <<>>

\* write_outputs: the guard
WriteGuard ==
    /\ pc = "write"
    /\ IF NoRows(rows)
       THEN /\ stdout' = Append(stdout, NoRowsMessage)
            /\ exitStatus' = 1
            /\ pc' = "exit_no_rows"
       ELSE /\ pc' = "csv"
            /\ UNCHANGED <<stdout, exitStatus>>
    /\ UNCHANGED <<inputs, i, skip, rows, outputs, harness>>

\* write_outputs: the CSV; open() creates the file before rows[0] is read
WriteCsv ==
    /\ pc = "csv"
    /\ outputs' = outputs \cup {"csv"}
    /\ IF rows = <<>>
       THEN pc' = "crashed" /\ exitStatus' = 1 /\ stdout' = stdout
       ELSE pc' = "summary" /\ exitStatus' = exitStatus
            /\ stdout' = Append(stdout, "Saved CSV")
    /\ UNCHANGED <<inputs, i, skip, rows, harness>>

AllFinite(rs) == \A k \in 1..Len(rs) : IsFinite(rs[k].perc_div)

\* a library call on values that are not all finite may raise
LibraryRaises ==
    /\ ~AllFinite(rows)
    /\ pc' = "crashed"
    /\ exitStatus' = 1
    /\ UNCHANGED <<inputs, i, skip, rows, outputs, stdout, harness>>

\* write_outputs: the statistics and the summary
WriteSummary ==
    /\ pc = "summary"
    /\ \/ /\ outputs' = outputs \cup {"summary"}
          /\ stdout' = Append(stdout, "Saved summary")
          /\ pc' = "hist"
          /\ UNCHANGED <<inputs, i, skip, rows, exitStatus, harness>>
       \/ LibraryRaises

\* write_outputs: the histogram
WriteHistogram ==
    /\ pc = "hist"
    /\ \/ /\ outputs' = outputs \cup {"png"}
          /\ stdout' = Append(stdout, "Saved plot")
          /\ pc' = IF top_families > 0 THEN "families" ELSE "done"
          /\ exitStatus' = IF top_families > 0 THEN exitStatus ELSE 0
          /\ UNCHANGED <<inputs, i, skip, rows, harness>>
       \/ LibraryRaises

\* write_outputs: the family overlay
WriteFamilies ==
    /\ pc = "families"
    /\ \/ /\ outputs' = outputs \cup {"families_png"}
          /\ stdout' = Append(stdout, "Saved family overlay")
          /\ pc' = "done"
          /\ exitStatus' = 0
          /\ UNCHANGED <<inputs, i, skip, rows, harness>>
       \/ LibraryRaises

Next ==
    \/ ScanLine
    \/ ScanEnd
    \/ ReadLine
    \/ ReadEnd
    \/ WriteGuard
    \/ WriteCsv
    \/ WriteSummary
    \/ WriteHistogram
    \/ WriteFamilies

Spec == Init /\ [][Next]_vars

----------------------------------------------------------------------------
(* The classifier on its own: is_l1 and infer_family applied to arguments   *)
(* built from fragments, to the examples of the documentation, and to None. *)

MaxClassFrags == 3
MaxNameFrags == 2

ClassFrags == { Chars("LINE"), Chars("li"), Chars("/"), Chars("L1") }
NameFrags == { Chars("L1"), Chars("l1"), Chars("PA"), Chars("x"), Chars("ne") }

ClassExamples == { Chars("LINE/L1"), Chars("SINE/Alu"), Chars("LINE"), Chars("LINE_L1"),
                   Chars("LINE -/ L1"), Chars("xLINE-l1") }
NameExamples == { Chars("L1HS"), Chars("L1-like"), Chars("AluY"), Chars("L1PA3"),
                  Chars("XYZ"), Chars("xL1PB12ab"), Chars("L1P_9") }

RECURSIVE FragStrings(_, _)
FragStrings(frags, n) ==
    IF n = 0 THEN { <<>> }
    ELSE LET shorter == FragStrings(frags, n - 1)
         IN shorter \cup { s \o f : s \in shorter, f \in frags }

ClassInputs == FragStrings(ClassFrags, MaxClassFrags) \cup ClassExamples \cup {None}
NameInputs == FragStrings(NameFrags, MaxNameFrags) \cup NameExamples \cup {None}

InitClassifier ==
    /\ repClassFamily \in ClassInputs
    /\ repName \in NameInputs
    /\ isL1Result = Idle
    /\ famResult = Idle
    /\ file = <<>>
    /\ top_families = 0
    /\ pc = "classifier"
    /\ i = 0
    /\ skip = 0
    /\ rows = <<>>
    /\ outputs = {}
    /\ stdout = <<>>
    /\ exitStatus = -1

run == <<file, top_families, pc, i, skip, rows, outputs, stdout, exitStatus>>

CallIsL1 ==
    /\ pc = "classifier"
    /\ ~Returned(isL1Result)
    /\ isL1Result' = [state |-> "returned", value |-> is_l1(repClassFamily, repName)]
    /\ UNCHANGED <<run, repClassFamily, repName, famResult>>

CallInferFamily ==
    /\ pc = "classifier"
    /\ ~Returned(famResult)
    /\ famResult' = [state |-> "returned", value |-> infer_family(repName, repClassFamily)]
    /\ UNCHANGED <<run, repClassFamily, repName, isL1Result>>

NextClassifier ==
    \/ CallIsL1
    \/ CallInferFamily

SpecClassifier == InitClassifier /\ [][NextClassifier]_vars

\* Both developments in one specification: a run of the program, or a call
\* of the classifier.
InitAll == Init \/ InitClassifier

NextAll == Next \/ NextClassifier

SpecAll == InitAll /\ [][NextAll]_vars

----------------------------------------------------------------------------
(* What the claims speak of, stated on the text of a line rather than as    *)
(* the program computes it.                                                 *)

\* where the whitespace-separated tokens of cs start and end
TokenStarts(cs) ==
    { a \in 1..Len(cs) : ~IsSpace(cs[a]) /\ (a = 1 \/ IsSpace(cs[a - 1])) }
TokenEnds(cs) ==
    { b \in 1..Len(cs) : ~IsSpace(cs[b]) /\ (b = Len(cs) \/ IsSpace(cs[b + 1])) }

\* the k-th smallest element of a set of numbers
Kth(S, k) == CHOOSE x \in S : Cardinality({ y \in S : y < x }) = k - 1

\* the tokens of cs by position 0, 1, ...
TokensOf(cs) ==
    [ k \in 0..(Cardinality(TokenStarts(cs)) - 1) |->
        SubSeq(cs, Kth(TokenStarts(cs), k + 1), Kth(TokenEnds(cs), k + 1)) ]

Tokens == [l \in Lines |-> TokensOf(Chars(l))]
NumTokens == [l \in Lines |-> Cardinality(TokenStarts(Chars(l)))]

\* the line is not blank, has at least 14 tokens, position 1 parses as a float
\* and positions 10, 9 are LINE-1
Qualifies ==
    [l \in Lines |->
        /\ NumTokens[l] >= 14
        /\ ParseFloat(Tokens[l][1]).kind # "ValueError"
        /\ is_l1(Tokens[l][10], Tokens[l][9])]

\* the line consists only of dashes, optionally surrounded by whitespace
OnlyDashes ==
    [l \in Lines |->
        /\ NumTokens[l] = 1
        /\ \A k \in 1..Len(l) : IsSpace(Chars(l)[k]) \/ Chars(l)[k] = "-"]

\* the index just after the first line of dashes, or 0
DataStart(f) ==
    IF \E k \in 1..Len(f) : OnlyDashes[f[k]]
    THEN CHOOSE k \in 1..Len(f) : OnlyDashes[f[k]] /\ \A j \in 1..(k - 1) : ~OnlyDashes[f[j]]
    ELSE 0

\* the second loop takes the step for a non-blank line at or after the offset
DataLineStep == pc = "read" /\ i' = i + 1 /\ i >= skip /\ NumTokens[file[i + 1]] > 0

\* a step appends a record
AppendStep == Len(rows') = Len(rows) + 1

InRun == pc # "classifier"
ReadDone == pc \in {"write", "exit_no_rows", "csv", "summary", "hist", "families", "done"}

----------------------------------------------------------------------------
(* C1 *)

\* C1: a non-blank line at or after the data start produces a record if and
\* only if it has at least 14 tokens, its position-1 token parses as a float
\* and is_l1(token 10, token 9) holds; otherwise the line leaves the records
\* as they are; no such line raises.
Claim_C1 ==
    [][ DataLineStep =>
          /\ pc' # "crashed"
          /\ IF Qualifies[file[i + 1]]
             THEN AppendStep /\ SubSeq(rows', 1, Len(rows)) = rows
             ELSE rows' = rows ]_vars

\* a finished pass over a retained line, a line of 13 tokens and a line whose
\* position-1 token is no float
Witness_C1 ==
    /\ pc = "write"
    /\ file = <<ShortLine, GoodLine, BadDivLine>>
    /\ Len(rows) = 1

----------------------------------------------------------------------------
(* C5 *)

\* C5: the perc_div of every record is a finite floating-point number.
Original_C5 == \A k \in 1..Len(rows) : IsFinite(rows[k].perc_div)

----------------------------------------------------------------------------
(* C6 *)

\* C6: with no records, write_outputs prints the message and exits with a
\* nonzero status before any artifact exists, and nothing runs after it; with
\* records, the run does not take that exit.
Claim_C6 ==
    /\ (rows = <<>> /\ InRun) => outputs = {}
    /\ pc = "exit_no_rows" =>
          /\ rows = <<>>
          /\ exitStatus > 0
          /\ stdout = <<NoRowsMessage>>
          /\ ~ENABLED Next
    /\ pc \in {"csv", "summary", "hist", "families", "done"} => rows # <<>>
    /\ rows # <<>> => pc # "exit_no_rows" /\ ~InSeq(NoRowsMessage, stdout)

\* the exit taken on a file with a divider and data lines, none retained
Witness_C6 ==
    /\ pc = "exit_no_rows"
    /\ file = <<DividerLine, AluLine, ShortLine>>
    /\ skip = 1
    /\ outputs = {}

----------------------------------------------------------------------------
(* C7 *)

\* the lines j of f with from < j <= to that qualify
Retained(f, from, to) == { j \in (from + 1)..to : Qualifies[f[j]] }

\* C7: skip is the index just after the first line of dashes, or 0 without
\* one; no line before it produces a record, and every line from it on is
\* a candidate: the records are as many as the qualifying lines from it on.
Claim_C7 ==
    /\ pc = "scan" => skip = 0 /\ \A k \in 1..i : ~OnlyDashes[file[k]]
    /\ (InRun /\ pc # "scan") => skip = DataStart(file)
    /\ pc = "read" => Len(rows) = Cardinality(Retained(file, DataStart(file), i))
    /\ ReadDone => Len(rows) = Cardinality(Retained(file, DataStart(file), Len(file)))

\* a qualifying line in the header block, ignored, and one after the first of
\* the dividers, retained
Witness_C7 ==
    /\ pc = "write"
    /\ file = <<GoodLine, DividerLine, ComplLine>>
    /\ skip = 2
    /\ Len(rows) = 1
    /\ rows[1].repName = Chars("l1pa3")

----------------------------------------------------------------------------
(* C8 *)

\* C8: a retained row's start and end are the integers of tokens 5 and 6 with
\* "," removed when both parse, and both absent when either does not; a
\* qualifying row whose coordinates do not parse is still appended.
Claim_C8 ==
    [][ DataLineStep =>
          LET l == file[i + 1]
              b == ParseInt(Remove(Tokens[l][5], ","))
              e == ParseInt(Remove(Tokens[l][6], ","))
              r == rows'[Len(rows')]
          IN /\ Qualifies[l] => AppendStep
             /\ AppendStep =>
                  IF b.ok /\ e.ok
                  THEN r.start = SomeInt(b.val) /\ r.end = SomeInt(e.val)
                  ELSE r.start = NoneInt /\ r.end = NoneInt ]_vars

\* rows with both coordinates, with a bad end and with a bad begin
Witness_C8 ==
    /\ pc = "write"
    /\ file = <<GoodLine, EndBadLine, BeginBadLine>>
    /\ Len(rows) = 3
    /\ rows[1].start = SomeInt(1234) /\ rows[1].end = SomeInt(2000)
    /\ rows[2].start = NoneInt /\ rows[2].end = NoneInt
    /\ rows[3].start = NoneInt /\ rows[3].end = NoneInt

----------------------------------------------------------------------------
(* C9 *)

\* C9: a retained row's strand is "-" if and only if token 8 or token 9 is
\* exactly "C", and "+" otherwise.
Claim_C9 ==
    [][ (DataLineStep /\ AppendStep) =>
          LET l == file[i + 1]
              r == rows'[Len(rows')]
          IN r.strand = IF Tokens[l][8] = Chars("C") \/ Tokens[l][9] = Chars("C")
                        THEN Chars("-") ELSE Chars("+") ]_vars

\* "C" at positions 7 and 11 only, then at position 9, then at position 8
Witness_C9 ==
    /\ pc = "write"
    /\ file = <<GoodLine, BeginBadLine, ComplLine>>
    /\ Len(rows) = 3
    /\ rows[1].strand = Chars("+")
    /\ rows[2].strand = Chars("-")
    /\ rows[3].strand = Chars("-")

----------------------------------------------------------------------------
(* C10 *)

\* C10: every step keeps the records it finds and appends at most one, at the
\* end, and only the second loop does, for the line it is at: the record of
\* that line; the records are never more than the data lines read.
Claim_C10 ==
    [][ /\ Len(rows') \in {Len(rows), Len(rows) + 1}
        /\ SubSeq(rows', 1, Len(rows)) = rows
        /\ AppendStep =>
             /\ DataLineStep
             /\ LET l == file[i + 1]
                    r == rows'[Len(rows')]
                IN /\ r.seqname = Tokens[l][4]
                   /\ r.repName = Tokens[l][9]
                   /\ r.repClassFamily = Tokens[l][10]
                   /\ r.perc_div = ParseFloat(Tokens[l][1])
        /\ pc' = "read" =>
             Len(rows') <= Cardinality({ j \in (skip' + 1)..i' : NumTokens[file[j]] > 0 })
      ]_vars

\* two records in the order of their lines, a dropped line between them
Witness_C10 ==
    /\ pc = "done"
    /\ file = <<GoodLine, AluLine, ComplLine>>
    /\ Len(rows) = 2
    /\ rows[1].repName = Chars("L1HS")
    /\ rows[2].repName = Chars("l1pa3")

----------------------------------------------------------------------------
(* C2 *)

\* s contains, case-insensitively, "LINE", then characters that are all
\* non-word characters (separators, slashes), then "L1"
ClassPatternIn(s) ==
    \E a \in 1..Len(s), b \in 1..Len(s) :
        /\ b >= a + 4
        /\ b + 1 <= Len(s)
        /\ Upper(SubSeq(s, a, a + 3)) = Chars("LINE")
        /\ Upper(SubSeq(s, b, b + 1)) = Chars("L1")
        /\ \A k \in (a + 4)..(b - 1) : ~IsWord(s[k])

NameStartsL1(nm) == nm # None /\ StartsWith(Upper(nm), Chars("L1"))

\* C2, as stated: is_l1 is true if and only if the concatenation of
\* classFamilyString and repeatName (absent as empty) holds the class pattern,
\* or repeatName is present and its upper-cased form starts with "L1".
Original_C2 ==
    (Returned(isL1Result) /\ repClassFamily # None) =>
        isL1Result.value = (\/ ClassPatternIn(repClassFamily \o OrEmpty(repName))
                            \/ NameStartsL1(repName))

\* C2, amended: is_l1 is true if and only if classFamilyString, one space and
\* repeatName (absent as empty), joined, hold the class pattern, or repeatName
\* is present and its upper-cased form starts with "L1".
Claim_C2 ==
    (Returned(isL1Result) /\ repClassFamily # None) =>
        isL1Result.value = (\/ ClassPatternIn(repClassFamily \o <<" ">> \o OrEmpty(repName))
                            \/ NameStartsL1(repName))

\* the pattern lies across the two arguments, and the space between them
\* breaks it
Witness_C2 ==
    /\ Returned(isL1Result)
    /\ repClassFamily = Chars("li")
    /\ repName = Chars("neL1")
    /\ isL1Result.value = FALSE

----------------------------------------------------------------------------
(* C3 *)

HasSlash(cf) == cf # None /\ InSeq("/", cf)

\* the substring after the first "/" of cf
AfterSlash(cf) ==
    LET p == CHOOSE q \in 1..Len(cf) : cf[q] = "/" /\ \A j \in 1..(q - 1) : cf[j] # "/"
    IN SubSeq(cf, p + 1, Len(cf))

\* C3, as stated: for a classFamilyString with a "/", infer_family returns
\* the substring after the first "/", whatever repeatName is.
Original_C3 ==
    (Returned(famResult) /\ HasSlash(repClassFamily)) =>
        famResult.value = AfterSlash(repClassFamily)

\* C3, amended: for a classFamilyString with a "/" and a non-empty substring
\* after the first "/", infer_family returns that substring, whatever
\* repeatName is.
Claim_C3 ==
    (Returned(famResult) /\ HasSlash(repClassFamily) /\ AfterSlash(repClassFamily) # <<>>) =>
        famResult.value = AfterSlash(repClassFamily)

\* the slash-split wins over a repeat name that holds a family token
Witness_C3 ==
    /\ Returned(famResult)
    /\ repClassFamily = Chars("LINE/L1")
    /\ repName = Chars("L1PA3")
    /\ famResult.value = Chars("L1")

----------------------------------------------------------------------------
(* C4 *)

\* what the slash-split yields
SlashFamily(cf) == IF HasSlash(cf) THEN AfterSlash(cf) ELSE <<>>

\* the name-pattern search finds a family: every alternative of the pattern
\* is "L1" and a letter, and more
HasFamilyToken(nm) ==
    /\ nm # None
    /\ \E p \in 1..(Len(nm) - 2) :
          Upper(SubSeq(nm, p, p + 1)) = Chars("L1") /\ IsLetter(nm[p + 2])

FamilyOK(nm, cf, fam) ==
    /\ fam # <<>>
    /\ fam # None
    /\ (SlashFamily(cf) = <<>> /\ ~HasFamilyToken(nm)) => fam = Chars("Unknown")

\* C4: the repFamily of every record is a non-empty string; infer_family
\* returns a non-empty string for every repeatName and classFamilyString,
\* absent ones included, and "Unknown" when neither the slash-split nor the
\* name pattern yields a family.
Claim_C4 ==
    /\ \A k \in 1..Len(rows) :
          FamilyOK(rows[k].repName, rows[k].repClassFamily, rows[k].repFamily)
    /\ Returned(famResult) => FamilyOK(repName, repClassFamily, famResult.value)

\* a record of class "LINE/" and name "L1": neither rule yields a family
Witness_C4 ==
    /\ pc = "write"
    /\ file = <<EndBadLine>>
    /\ Len(rows) = 1
    /\ rows[1].repClassFamily = Chars("LINE/")
    /\ rows[1].repFamily = Chars("Unknown")

====
